---- MODULE Spec2Model ----
(***************************************************************************)
(* A model of Larvitar's volumetric geometry and reslicing utilities       *)
(* (src/imaging/image_utils.js), of the series i/o module                  *)
(* (src/unnamed/part_000: cacheAndSaveSerie, buildHeader, buildData) and   *)
(* of the cache operations of src/imaging/image_rendering.js.              *)
(*                                                                         *)
(* JavaScript arrays are 0-based; they are modelled as sequences and read  *)
(* with At(arr, i) == arr[i + 1].  A JavaScript number that is used as a   *)
(* signed table entry is a record [neg, abs], so that -0 and +0 differ as  *)
(* they do for isNegativeSign.  Every operation is an operator computed as *)
(* the code computes it; an exception is a result of kind "TypeError" or   *)
(* "RangeError", JavaScript's undefined a result of kind "undefined".      *)
(***************************************************************************)
EXTENDS Integers, Sequences, FiniteSets, TLC

VARIABLES
    serieDimensions,  \* the store behind getSerieDimensions()
    voxel,            \* remapVoxel: the call's arguments [ijk, from, to]
    remapped,         \* remapVoxel: the voxel it returned
    roundTrip,        \* remapVoxel: the result of remapping `remapped` back
    originalData,     \* the source series: imageIds and instances
    reslicedData,     \* getReslicedMetadata: the call and what it returned
    reslicedSlice,    \* getReslicedPixeldata: the call and what it returned
    distSeries,       \* getDistanceBetweenSlices: the series it is called on
    distCall,         \* getDistanceBetweenSlices: the call and what it returned
    sortSeries,       \* getSortedStack: the series it is called on
    sortCall,         \* getSortedStack: the call and what it returned
    cacheSeries,      \* the series the application holds, by name
    cachedImages,     \* cornerstone.imageCache.cachedImages
    imageLoads,       \* the image load objects (promises) created so far
    saveCalls,        \* cacheAndSaveSerie: the call made for each series
    builtData,        \* buildData: the last direct call and what it returned
    keySlice,         \* sortStackCallback: the metadata of the slice it is asked about
    keyCall,          \* sortStackCallback: the call and what it returned
    pixelData,        \* getMinPixelValue, getMaxPixelValue: the pixel buffer
    minMaxCall        \* getMinPixelValue, getMaxPixelValue: the call and what it returned

vars == <<serieDimensions, voxel, remapped, roundTrip,
          originalData, reslicedData, reslicedSlice, distSeries, distCall,
          sortSeries, sortCall,
          cacheSeries, cachedImages, imageLoads, saveCalls, builtData,
          keySlice, keyCall, pixelData, minMaxCall>>

remapVars == <<serieDimensions, voxel, remapped, roundTrip>>

resliceVars == <<originalData, reslicedData, reslicedSlice>>

distVars == <<distSeries, distCall>>

sortVars == <<sortSeries, sortCall>>

cacheVars == <<cacheSeries, cachedImages, imageLoads, saveCalls, builtData>>

keyVars == <<keySlice, keyCall>>

minMaxVars == <<pixelData, minMaxCall>>

\* ------------------------------------------------------------------ bounds

\* Largest extent of a volume along one axis, in voxels.
MaxDim == 2

\* ----------------------------------------------------------------- helpers

Idle == [kind |-> "idle"]

None == [kind |-> "none"]

\* arr[i] of a JavaScript array.
At(arr, i) == arr[i + 1]

\* arr[i] = v of a JavaScript array of fixed length (i in range).
Put(arr, i, v) == [arr EXCEPT ![i + 1] = v]

\* A positive table entry n (also +0), and a negative one -n (also -0).
P(n) == [neg |-> FALSE, abs |-> n]

N(n) == [neg |-> TRUE, abs |-> n]

Orientations == {"axial", "sagittal", "coronal"}

\* ------------------------------------------------------ permutation algebra

resliceTableDup ==
    [from \in Orientations |->
        [to \in Orientations \ {from} |->
            IF from = "sagittal" /\ to = "coronal" THEN <<N(2), P(1), P(0)>>
            ELSE IF from = "sagittal" /\ to = "axial" THEN <<N(2), P(0), N(1)>>
            ELSE IF from = "coronal" /\ to = "sagittal" THEN <<P(2), P(1), N(0)>>
            ELSE IF from = "coronal" /\ to = "axial" THEN <<P(0), P(2), N(1)>>
            ELSE IF from = "axial" /\ to = "sagittal" THEN <<P(1), N(2), N(1)>>
            ELSE <<P(0), N(2), P(1)>>]]

\* const resliceTable: from -> to -> three signed entries; no self-pair.
resliceTable ==
    [from \in Orientations |->
        [to \in Orientations \ {from} |->
            IF from = "sagittal" /\ to = "coronal" THEN <<N(2), P(1), P(0)>>
            ELSE IF from = "sagittal" /\ to = "axial" THEN <<N(2), P(0), N(1)>>
            ELSE IF from = "coronal" /\ to = "sagittal" THEN <<P(2), P(1), N(0)>>
            ELSE IF from = "coronal" /\ to = "axial" THEN <<P(0), P(2), N(1)>>
            ELSE IF from = "axial" /\ to = "sagittal" THEN <<P(1), N(2), N(0)>>
            ELSE <<P(0), N(2), P(1)>>]]

\* Math.abs
MathAbs(x) == x.abs

\* permuteTable.map(v => Math.abs(v))
AbsTable(permuteTable) == [k \in 1..Len(permuteTable) |-> MathAbs(permuteTable[k])]

isNegativeSignLt(x) == x.neg /\ x.abs # 0

\* 1 / x !== 1 / Math.abs(x): true of every negative number and of -0.
isNegativeSign(x) == x.neg

permuteValuesId(convertArray, sourceArray) ==
    [i \in 1..Len(convertArray) |-> sourceArray[i]]

\* outputArray[i] = sourceArray[convertArray[i]]
permuteValues(convertArray, sourceArray) ==
    [i \in 1..Len(convertArray) |-> At(sourceArray, convertArray[i])]

\* ------------------------------------------------------------ voxel remapper

\* getSerieDimensions(): per-orientation extents of the one loaded volume,
\* those of the other orientations being the axial ones permuted by the
\* reslice table.
SerieDimensionsOf(d) ==
    [o \in Orientations |->
        IF o = "axial" THEN d
        ELSE permuteValues(AbsTable(resliceTable["axial"][o]), d)]

getSerieDimensions == serieDimensions

remapVoxel(ijk, fromOrientation, toOrientation) ==
    IF fromOrientation = toOrientation THEN ijk
    ELSE
        LET permuteTable == resliceTable[toOrientation][fromOrientation]
            permuteAbsTable == AbsTable(permuteTable)
            dims == getSerieDimensions
            i_ == IF isNegativeSign(At(permuteTable, 0))
                  THEN At(dims[fromOrientation], 0) - At(ijk, 0) ELSE At(ijk, 0)
            j_ == IF isNegativeSign(At(permuteTable, 1))
                  THEN At(dims[fromOrientation], 1) - At(ijk, 1) ELSE At(ijk, 1)
            k_ == IF isNegativeSign(At(permuteTable, 2))
                  THEN At(dims[fromOrientation], 2) - At(ijk, 2) ELSE At(ijk, 2)
            s0 == Put(<<0, 0, 0>>, At(permuteAbsTable, 0), i_)
            s1 == Put(s0, At(permuteAbsTable, 1), j_)
        IN  Put(s1, At(permuteAbsTable, 2), k_)

\* The in-bounds voxels of a volume of extents d.
Voxels(d) == {<<i, j, k>> : i \in 0..(d[1] - 1), j \in 0..(d[2] - 1), k \in 0..(d[3] - 1)}

InitRemap ==
    /\ serieDimensions \in {SerieDimensionsOf(<<a, b, c>>) :
                               a \in 1..MaxDim, b \in 1..MaxDim, c \in 1..MaxDim}
    /\ voxel = None
    /\ remapped = <<>>
    /\ roundTrip = <<>>
    /\ originalData = Idle /\ reslicedData = Idle /\ reslicedSlice = Idle
    /\ distSeries = Idle /\ distCall = Idle
    /\ sortSeries = Idle /\ sortCall = Idle
    /\ cacheSeries = Idle /\ cachedImages = Idle /\ imageLoads = Idle
    /\ saveCalls = Idle /\ builtData = Idle
    /\ keySlice = Idle /\ keyCall = Idle
    /\ pixelData = Idle /\ minMaxCall = Idle

\* A caller remaps an in-bounds voxel of one orientation into another.
RemapVoxel ==
    \E from \in Orientations, to \in Orientations :
        \E ijk \in Voxels(serieDimensions[from]) :
            /\ voxel' = [kind |-> "call", ijk |-> ijk, from |-> from, to |-> to]
            /\ remapped' = remapVoxel(ijk, from, to)
            /\ roundTrip' = <<>>
            /\ UNCHANGED <<serieDimensions, resliceVars, distVars, sortVars, cacheVars, keyVars, minMaxVars>>

\* The caller remaps the returned voxel back into the first orientation.
RemapVoxelBack ==
    /\ voxel.kind = "call"
    /\ roundTrip = <<>>
    /\ roundTrip' = remapVoxel(remapped, voxel.to, voxel.from)
    /\ UNCHANGED <<serieDimensions, voxel, remapped, resliceVars, distVars, sortVars, cacheVars, keyVars, minMaxVars>>

NextRemap == RemapVoxel \/ RemapVoxelBack

SpecRemap == InitRemap /\ [][NextRemap]_vars

\* C1: for every ordered pair of distinct canonical orientations (A, B) and
\* every in-bounds voxel v of the volume in orientation A, remapping v from A
\* to B and the result back from B to A gives v again.
C1_RoundTrip ==
    (voxel.kind = "call" /\ voxel.from # voxel.to /\ roundTrip # <<>>)
        => roundTrip = voxel.ijk

\* A voxel with a coordinate on a flipped axis has been remapped from axial
\* to sagittal and back.
C1_Witness ==
    /\ voxel.kind = "call"
    /\ voxel.from = "axial" /\ voxel.to = "sagittal"
    /\ roundTrip # <<>>
    /\ remapped # voxel.ijk
    /\ At(serieDimensions["axial"], 0) > 1

\* C19: for every pair of distinct canonical orientations, remapVoxel maps an
\* in-bounds voxel of the source orientation to an in-bounds voxel of the
\* target orientation.
C19_RemapInBounds ==
    (voxel.kind = "call" /\ voxel.from # voxel.to) =>
        \A a \in 0..2 :
            /\ At(remapped, a) >= 0
            /\ At(remapped, a) < At(serieDimensions[voxel.to], a)

\* ------------------------------------------------------ geometry primitives

\* A vector attribute a slice does not carry (JavaScript's undefined).
Absent == <<>>

AbsInt(x) == IF x < 0 THEN -x ELSE x

getNormalOrientationSwapped(el) ==
    LET a == <<At(el, 0), At(el, 1), At(el, 2)>>
        b == <<At(el, 3), At(el, 4), At(el, 5)>>
    IN  <<At(a, 1) * At(b, 2) + At(a, 2) * At(b, 1),
          At(a, 2) * At(b, 0) + At(a, 0) * At(b, 2),
          At(a, 0) * At(b, 1) + At(a, 1) * At(b, 0)>>

\* getNormalOrientation: the cross product of el[0..2] and el[3..5].
getNormalOrientation(el) ==
    LET a == <<At(el, 0), At(el, 1), At(el, 2)>>
        b == <<At(el, 3), At(el, 4), At(el, 5)>>
    IN  <<At(a, 1) * At(b, 2) - At(a, 2) * At(b, 1),
          At(a, 2) * At(b, 0) - At(a, 0) * At(b, 2),
          At(a, 0) * At(b, 1) - At(a, 1) * At(b, 0)>>

\* normal[0] * p[0] + normal[1] * p[1] + normal[2] * p[2]
Dot3(n, p) == At(n, 0) * At(p, 0) + At(n, 1) * At(p, 1) + At(n, 2) * At(p, 2)

\* metadata.alias ? metadata.alias : metadata.raw
AliasOrRaw(alias, raw) == IF alias # Absent THEN alias ELSE raw

\* getDistanceBetweenSlices(seriesData, sliceIndex1, sliceIndex2).  Reading a
\* property of undefined (a slice index outside the series, or the missing
\* position of the second slice) throws a TypeError.
getDistanceBetweenSlices(seriesData, sliceIndex1, sliceIndex2) ==
    IF Len(seriesData.imageIds) <= 1 THEN [kind |-> "value", value |-> 0]
    ELSE IF sliceIndex1 < 0 \/ sliceIndex1 >= Len(seriesData.imageIds)
    THEN [kind |-> "TypeError"]
    ELSE
        LET metadata1 == seriesData.instances[At(seriesData.imageIds, sliceIndex1)].metadata
            imageOrientation == AliasOrRaw(metadata1.imageOrientation, metadata1.x00200037)
            imagePosition == AliasOrRaw(metadata1.imagePosition, metadata1.x00200032)
        IN  IF imageOrientation # Absent /\ imagePosition # Absent
            THEN
                LET normal == getNormalOrientation(imageOrientation)
                    d1 == Dot3(normal, imagePosition)
                IN  IF sliceIndex2 < 0 \/ sliceIndex2 >= Len(seriesData.imageIds)
                    THEN [kind |-> "TypeError"]
                    ELSE
                        LET metadata2 ==
                                seriesData.instances[At(seriesData.imageIds, sliceIndex2)].metadata
                            imagePosition2 ==
                                AliasOrRaw(metadata2.imagePosition, metadata2.x00200032)
                        IN  IF imagePosition2 = Absent THEN [kind |-> "TypeError"]
                            ELSE [kind |-> "value",
                                  value |-> AbsInt(d1 - Dot3(normal, imagePosition2))]
            ELSE [kind |-> "undefined"]

\* ------------------------------------------------------ pixel representation

\* The representation strings the typed-array switches know.
SupportedReprs == {"Uint8", "Sint8", "Uint16", "Sint16", "Uint32", "Sint32"}

\* metadata.repr of a source slice: a supported string, a string no switch
\* knows, or no repr at all.
ReprInputs == {"Uint16", "Sint8", "Float32", "absent"}

\* An integer stored into a typed array of representation r wraps to its width.
ToTyped(r, v) ==
    LET w == IF r \in {"Uint8", "Sint8"} THEN 2^8
             ELSE IF r \in {"Uint16", "Sint16"} THEN 2^16 ELSE 2^32
        u == v % w
    IN  IF r \in {"Sint8", "Sint16", "Sint32"} /\ u >= w \div 2 THEN u - w ELSE u

\* getPixelRepresentation on a metadata object: its repr when it has one;
\* otherwise getTagValue calls dataSet.uint16, which a metadata object lacks.
getPixelRepresentation(dataSet) ==
    IF dataSet.repr # "absent" THEN [kind |-> "ok", repr |-> dataSet.repr]
    ELSE [kind |-> "TypeError"]

getTypedArrayDouble(tags, size) ==
    LET r == getPixelRepresentation(tags)
    IN  IF r.kind # "ok" THEN r
        ELSE IF r.repr \in SupportedReprs
             THEN [kind |-> "ok", repr |-> r.repr, data |-> [k \in 1..(2 * size) |-> 0]]
             ELSE [kind |-> "undefined"]

\* getTypedArray: a zero-filled typed array of `size` elements; the switch has
\* no default, so an unknown representation leaves `array` undefined.
getTypedArray(tags, size) ==
    LET r == getPixelRepresentation(tags)
    IN  IF r.kind # "ok" THEN r
        ELSE IF r.repr \in SupportedReprs
             THEN [kind |-> "ok", repr |-> r.repr, data |-> [k \in 1..size |-> 0]]
             ELSE [kind |-> "undefined"]

\* typedArray[index] = value: a write outside the array is dropped, undefined
\* (value = <<>>) is stored as 0.
TypedStore(arr, index, value) ==
    IF index < 0 \/ index >= Len(arr.data) THEN arr
    ELSE [arr EXCEPT !.data[index + 1] =
              IF value = <<>> THEN 0 ELSE ToTyped(arr.repr, value[1])]

\* ------------------------------------------------------------ source series

\* The identifier of source slice f, and the one minted for output slice f.
OrigId(f) == <<"orig", f>>

CustomImageId(f) == <<"resliced", f>>

\* The direction cosines (row, column) of a slice in a canonical orientation.
CanonicalIOP(o) ==
    IF o = "axial" THEN <<1, 0, 0, 0, 1, 0>>
    ELSE IF o = "sagittal" THEN <<0, 1, 0, 0, 0, -1>>
    ELSE <<1, 0, 0, 0, 0, -1>>

\* Pixel spacing [row, column], the gap between consecutive slices and
\* whether the slices carry it as x00180050 (0: they do not).
GeometryInputs ==
    {[pixelSpacing |-> <<1, 1>>, gap |-> 1, hasThickness |-> TRUE],
     [pixelSpacing |-> <<2, 3>>, gap |-> 4, hasThickness |-> TRUE],
     [pixelSpacing |-> <<2, 3>>, gap |-> 4, hasThickness |-> FALSE]}

\* The position of the first voxel of the first slice.
FirstPosition == <<10, -20, 30>>

\* A loaded series of n slices of rows x cols pixels in canonical orientation
\* o; consecutive slices lie g.gap apart along the normal, and every voxel
\* holds a value of its own (1 + its offset in the volume).
MkSeries(cols, rows, n, repr, o, g) ==
    [kind |-> "series",
     orientation |-> o,
     imageIds |-> [f \in 1..n |-> OrigId(f - 1)],
     instances |->
        [id \in {OrigId(f) : f \in 0..(n - 1)} |->
            [metadata |->
                [x00280011 |-> cols, x00280010 |-> rows, repr |-> repr,
                 imageOrientation |-> Absent, x00200037 |-> CanonicalIOP(o),
                 imagePosition |-> Absent,
                 x00200032 |->
                    [k \in 1..3 |->
                        FirstPosition[k]
                            + id[2] * g.gap * getNormalOrientation(CanonicalIOP(o))[k]],
                 x00280030 |-> g.pixelSpacing,
                 x00180050 |-> IF g.hasThickness THEN g.gap ELSE 0],
             pixelData |-> [k \in 1..(rows * cols) |-> 1 + id[2] * rows * cols + (k - 1)]]]]

SeriesInputs ==
    {MkSeries(c, r, n, repr, o, g) :
        c \in 1..MaxDim, r \in 1..MaxDim, n \in 1..MaxDim, repr \in ReprInputs,
        o \in Orientations, g \in GeometryInputs}

\* ------------------------------------------------------------ reslice engine

\* indexOf(array, x): the first index of x, -1 when there is none.
IndexOf(seq, x) ==
    IF \E k \in 1..Len(seq) : seq[k] = x
    THEN (CHOOSE k \in 1..Len(seq) : seq[k] = x /\ \A m \in 1..(k - 1) : seq[m] # x) - 1
    ELSE -1

\* max(array)
MaxOf(seq) == CHOOSE x \in {seq[k] : k \in 1..Len(seq)} : \A k \in 1..Len(seq) : seq[k] <= x

\* map(v, Math.abs)
AbsVector(v) == [k \in 1..Len(v) |-> AbsInt(v[k])]

\* v.map(x => -x)
NegVector(v) == [k \in 1..Len(v) |-> -v[k]]

\* indexOf(abs, max(abs)) of the normal of an orientation.
MajorIndex(iop) ==
    LET absW == AbsVector(getNormalOrientation(iop))
    IN  IndexOf(absW, MaxOf(absW))

\* permuteSignedArrays: sourceArray[|convertArray[i]|], negated element-wise
\* when convertArray[i] is negative (-0 included).
permuteSignedArrays(convertArray, sourceArray) ==
    [i \in 1..Len(convertArray) |->
        IF isNegativeSign(convertArray[i])
        THEN NegVector(At(sourceArray, MathAbs(convertArray[i])))
        ELSE At(sourceArray, MathAbs(convertArray[i]))]

\* spacingArray: [column spacing, row spacing, distance between slices].
spacingArray(seriesData, sampleMetadata) ==
    LET distanceBetweenSlices ==
            IF sampleMetadata.x00180050 # 0 THEN sampleMetadata.x00180050
            ELSE getDistanceBetweenSlices(seriesData, 0, 1).value
    IN  <<At(sampleMetadata.x00280030, 1), At(sampleMetadata.x00280030, 0),
          distanceBetweenSlices>>

\* getReslicedIOP: the first two of the signed permutation of [u, v, w].
getReslicedIOP(iop, permuteTable) ==
    LET u == SubSeq(iop, 1, 3)
        v == SubSeq(iop, 4, 6)
        w == getNormalOrientation(iop)
        shuffledIop == permuteSignedArrays(permuteTable, <<u, v, w>>)
    IN  At(shuffledIop, 0) \o At(shuffledIop, 1)

\* The spacing and versor getReslicedIPP picks: none is assigned for a
\* coronal target of a coronal source.
ReslicedStep(majorIndex, majorOriginalIndex, fromSpacing, u, v) ==
    IF majorIndex = 0 THEN [kind |-> "ok", spacing |-> At(fromSpacing, 0), versor |-> u]
    ELSE IF majorIndex = 1 /\ majorOriginalIndex = 0
    THEN [kind |-> "ok", spacing |-> At(fromSpacing, 0), versor |-> u]
    ELSE IF majorIndex = 1 /\ majorOriginalIndex = 2
    THEN [kind |-> "ok", spacing |-> At(fromSpacing, 1), versor |-> v]
    ELSE IF majorIndex = 2
    THEN [kind |-> "ok", spacing |-> At(fromSpacing, 1), versor |-> v]
    ELSE [kind |-> "undefined"]

\* The index of a getReslicedIPP that never flips it.
ReslicedIndexPlain(permuteTable, majorIndex, majorOriginalIndex, toSize, imageIndex) ==
    imageIndex

\* The index getReslicedIPP multiplies the step by.
ReslicedIndex(permuteTable, majorIndex, majorOriginalIndex, toSize, imageIndex) ==
    LET useIndex == IF majorIndex = 1 /\ majorOriginalIndex = 2
                    THEN majorOriginalIndex ELSE majorIndex
    IN  IF isNegativeSign(At(permuteTable, useIndex))
        THEN At(toSize, useIndex) - imageIndex
        ELSE imageIndex

\* getReslicedIPP: versor[i] of an undefined versor throws a TypeError.
getReslicedIPP(ipp, iop, reslicedIOP, permuteTable, imageIndex, fromSize, toSize, fromSpacing) ==
    LET u == SubSeq(iop, 1, 3)
        v == SubSeq(iop, 4, 6)
        w == getNormalOrientation(iop)
        majorOriginalIndex == MajorIndex(iop)
        majorIndex == MajorIndex(reslicedIOP)
        index == ReslicedIndex(permuteTable, majorIndex, majorOriginalIndex, toSize,
                               imageIndex)
        ipp1 == IF isNegativeSign(At(permuteTable, 1))
                THEN [i \in 1..3 |-> ipp[i] + At(fromSize, 2) * At(fromSpacing, 2) * w[i]]
                ELSE ipp
        step == ReslicedStep(majorIndex, majorOriginalIndex, fromSpacing, u, v)
    IN  IF step.kind # "ok" THEN [kind |-> "TypeError"]
        ELSE [kind |-> "ok",
              value |-> [i \in 1..3 |-> ipp1[i] + index * step.spacing * step.versor[i]]]

\* getReslicedSliceLocation: the position along the major axis of the normal.
getReslicedSliceLocation(reslicedIOP, reslicedIPP) ==
    At(reslicedIPP, MajorIndex(reslicedIOP))

\* The loop of getReslicedMetadata and the object it returns.
ReslicedSeries(permuteTable, seriesData) ==
    LET permuteAbsTable == AbsTable(permuteTable)
        sampleMetadata == seriesData.instances[At(seriesData.imageIds, 0)].metadata
        fromSize == <<sampleMetadata.x00280011, sampleMetadata.x00280010,
                      Len(seriesData.imageIds)>>
        toSize == permuteValues(permuteAbsTable, fromSize)
        fromSpacing == spacingArray(seriesData, sampleMetadata)
        toSpacing == permuteValues(permuteAbsTable, fromSpacing)
        reslicedIOP == getReslicedIOP(sampleMetadata.x00200037, permuteTable)
        reslicedIPP(f) == getReslicedIPP(sampleMetadata.x00200032, sampleMetadata.x00200037,
                                         reslicedIOP, permuteTable, f, fromSize, toSize,
                                         fromSpacing)
    IN  IF \E f \in 0..(At(toSize, 2) - 1) : reslicedIPP(f).kind # "ok"
        THEN [kind |-> "TypeError"]
        ELSE
        [kind |-> "ok",
         imageIds |-> [f \in 1..At(toSize, 2) |-> CustomImageId(f - 1)],
         instances |->
            [id \in {CustomImageId(f) : f \in 0..(At(toSize, 2) - 1)} |->
                [metadata |-> [x00280010 |-> At(toSize, 1),
                               x00280011 |-> At(toSize, 0),
                               x00280030 |-> <<At(toSpacing, 1), At(toSpacing, 0)>>,
                               x00180050 |-> <<At(toSpacing, 2)>>,
                               x00200013 |-> id[2] + 1,
                               x00201041 |-> getReslicedSliceLocation(
                                                 reslicedIOP, reslicedIPP(id[2]).value),
                               x00200037 |-> reslicedIOP,
                               x00200032 |-> reslicedIPP(id[2]).value,
                               repr |-> sampleMetadata.repr],
                 permuteTable |-> permuteTable]],
         currentImageIdIndex |-> 0]

getReslicedMetadataSame(fromOrientation, toOrientation, seriesData) ==
    IF fromOrientation = toOrientation
    THEN [kind |-> "ok", imageIds |-> seriesData.imageIds,
          instances |-> seriesData.instances, currentImageIdIndex |-> 0]
    ELSE ReslicedSeries(resliceTable[fromOrientation][toOrientation], seriesData)

\* getReslicedMetadata: resliceTable[from][to] is undefined for a self-pair,
\* and permuteTable.map then throws a TypeError.
getReslicedMetadata(fromOrientation, toOrientation, seriesData) ==
    IF toOrientation \notin DOMAIN resliceTable[fromOrientation]
    THEN [kind |-> "TypeError"]
    ELSE ReslicedSeries(resliceTable[fromOrientation][toOrientation], seriesData)

\* getPixelValue: <<>> (undefined) when the source slice or pixel is missing.
getPixelValue(ijf, origData, fromCols) ==
    LET i == At(ijf, 0)
        j == At(ijf, 1)
        f == At(ijf, 2)
    IN  IF f < 0 \/ f >= Len(origData.imageIds) THEN <<>>
        ELSE LET targetPixeldata == origData.instances[At(origData.imageIds, f)].pixelData
                 index == j * fromCols + i
             IN  IF index < 0 \/ index >= Len(targetPixeldata) THEN <<>>
                 ELSE <<At(targetPixeldata, index)>>

\* The source index vector and the output offset of output pixel (j, i).
SourceIjf(permuteAbsTable, i, j, frame) ==
    Put(Put(Put(<<0, 0, 0>>, At(permuteAbsTable, 0), i),
            At(permuteAbsTable, 1), j),
        At(permuteAbsTable, 2), frame)

OutputIndex(permuteTable, rows, cols, i, j) ==
    IF isNegativeSign(At(permuteTable, 1)) THEN rows * cols - j * cols + i
    ELSE j * cols + i

\* The two nested loops, from iteration k = j * cols + i on.
RECURSIVE FillSlice(_, _, _, _, _, _, _, _)
FillSlice(slice, k, rows, cols, permuteTable, frame, origData, fromCols) ==
    IF k >= rows * cols THEN slice
    ELSE LET j == k \div cols
             i == k % cols
             ijf == SourceIjf(AbsTable(permuteTable), i, j, frame)
             index == OutputIndex(permuteTable, rows, cols, i, j)
         IN  FillSlice(TypedStore(slice, index, getPixelValue(ijf, origData, fromCols)),
                       k + 1, rows, cols, permuteTable, frame, origData, fromCols)

\* getReslicedPixeldata(imageId, originalData, reslicedData)
getReslicedPixeldata(imageId, origData, resData) ==
    LET reslicedInstance == resData.instances[imageId]
        reslicedMetadata == reslicedInstance.metadata
        rows == reslicedMetadata.x00280010
        cols == reslicedMetadata.x00280011
        reslicedSlice0 == getTypedArray(reslicedMetadata, rows * cols)
        frame0 == IndexOf(resData.imageIds, imageId)
        fromCols == origData.instances[At(origData.imageIds, 0)].metadata.x00280011
        frame == IF isNegativeSign(At(reslicedInstance.permuteTable, 2))
                 THEN Len(resData.imageIds) - frame0 ELSE frame0
    IN  IF reslicedSlice0.kind = "TypeError" THEN reslicedSlice0
        ELSE IF reslicedSlice0.kind = "undefined"
             THEN (IF rows * cols > 0 THEN [kind |-> "TypeError"] ELSE reslicedSlice0)
             ELSE FillSlice(reslicedSlice0, 0, rows, cols, reslicedInstance.permuteTable,
                            frame, origData, fromCols)

Init ==
    /\ originalData \in SeriesInputs
    /\ reslicedData = None
    /\ reslicedSlice = None
    /\ serieDimensions = Idle /\ voxel = Idle /\ remapped = Idle /\ roundTrip = Idle
    /\ distSeries = Idle /\ distCall = Idle
    /\ sortSeries = Idle /\ sortCall = Idle
    /\ cacheSeries = Idle /\ cachedImages = Idle /\ imageLoads = Idle
    /\ saveCalls = Idle /\ builtData = Idle
    /\ keySlice = Idle /\ keyCall = Idle
    /\ pixelData = Idle /\ minMaxCall = Idle

\* A caller asks for the metadata of the series resliced from its orientation
\* to another (or the same) orientation.
GetReslicedMetadata ==
    \E to \in Orientations :
        /\ reslicedData' = [kind |-> "call", from |-> originalData.orientation, to |-> to,
                            result |-> getReslicedMetadata(originalData.orientation, to,
                                                           originalData)]
        /\ reslicedSlice' = None
        /\ UNCHANGED <<originalData, remapVars, distVars, sortVars, cacheVars, keyVars, minMaxVars>>

\* A caller asks for the pixels of one slice of the resliced series.
GetReslicedPixeldata ==
    /\ reslicedData.kind = "call"
    /\ reslicedData.result.kind = "ok"
    /\ \E f \in 1..Len(reslicedData.result.imageIds) :
        reslicedSlice' =
            [kind |-> "call", imageId |-> reslicedData.result.imageIds[f],
             result |-> getReslicedPixeldata(reslicedData.result.imageIds[f],
                                             originalData, reslicedData.result)]
    /\ UNCHANGED <<originalData, reslicedData, remapVars, distVars, sortVars, cacheVars, keyVars, minMaxVars>>

Next == GetReslicedMetadata \/ GetReslicedPixeldata

Spec == Init /\ [][Next]_vars

\* ------------------------------------------------- claims on the reslice engine

\* The sizes [cols, rows, numSlices] of the source series.
FromSizeOf(seriesData) ==
    <<seriesData.instances[seriesData.imageIds[1]].metadata.x00280011,
      seriesData.instances[seriesData.imageIds[1]].metadata.x00280010,
      Len(seriesData.imageIds)>>

\* C2: for every ordered pair of distinct canonical orientations,
\* getReslicedMetadata returns exactly toSize[2] slices, each with
\* rows = toSize[1] and cols = toSize[0], where toSize[k] = fromSize[|table[k]|]
\* and fromSize = [cols, rows, numSlices]; so rows x cols x slices of the
\* resliced volume equals that of the source volume.
C2_ReslicedSizes ==
    (reslicedData.kind = "call" /\ reslicedData.from # reslicedData.to) =>
        LET t == resliceTable[reslicedData.from][reslicedData.to]
            fromSize == FromSizeOf(originalData)
            res == reslicedData.result
        IN  /\ res.kind = "ok"
            /\ Len(res.imageIds) = fromSize[t[3].abs + 1]
            /\ Cardinality(DOMAIN res.instances) = Len(res.imageIds)
            /\ \A k \in 1..Len(res.imageIds) :
                /\ res.instances[res.imageIds[k]].metadata.x00280010 = fromSize[t[2].abs + 1]
                /\ res.instances[res.imageIds[k]].metadata.x00280011 = fromSize[t[1].abs + 1]
                /\ res.instances[res.imageIds[k]].metadata.x00280010
                     * res.instances[res.imageIds[k]].metadata.x00280011
                     * Len(res.imageIds)
                   = fromSize[1] * fromSize[2] * fromSize[3]

\* An axial series with more rows than columns and more than one slice has
\* been resliced to sagittal.
C2_Witness ==
    /\ reslicedData.kind = "call"
    /\ reslicedData.from = "axial" /\ reslicedData.to = "sagittal"
    /\ reslicedData.result.kind = "ok"
    /\ FromSizeOf(originalData)[1] < FromSizeOf(originalData)[2]
    /\ Len(originalData.imageIds) > 1
    /\ Len(reslicedData.result.imageIds) = FromSizeOf(originalData)[1]

\* C3 as stated: the buffer getReslicedPixeldata returns has length
\* rows x cols x numOutputSlices of the target volume.
C3_WholeVolumeLength ==
    (reslicedSlice.kind = "call" /\ reslicedSlice.result.kind = "ok") =>
        LET md == reslicedData.result.instances[reslicedSlice.imageId].metadata
        IN  Len(reslicedSlice.result.data)
                = md.x00280010 * md.x00280011 * Len(reslicedData.result.imageIds)

\* C3 as amended: for every orientation pair and every output slice id,
\* getReslicedPixeldata returns a buffer whenever the representation is a
\* supported one, and the buffer has length rows x cols of the target volume
\* (the pixels of that one output slice).
C3_SliceLength ==
    reslicedSlice.kind = "call" =>
        LET md == reslicedData.result.instances[reslicedSlice.imageId].metadata
        IN  /\ md.repr \in SupportedReprs => reslicedSlice.result.kind = "ok"
            /\ reslicedSlice.result.kind = "ok" =>
                   Len(reslicedSlice.result.data) = md.x00280010 * md.x00280011

\* The pixels of a slice of a resliced volume of several slices of several
\* pixels have been computed.
C3_Witness ==
    /\ reslicedSlice.kind = "call"
    /\ reslicedSlice.result.kind = "ok"
    /\ Len(reslicedData.result.imageIds) > 1
    /\ Len(reslicedSlice.result.data) > 1

\* C7: the reslice table is defined for exactly the six ordered pairs of
\* distinct canonical orientations, has no entry for a self-pair, and the
\* absolute values of each entry's three elements are a permutation of
\* {0, 1, 2} (in every state of a loaded series).
C7_TableShape ==
    originalData.kind = "series" =>
        /\ DOMAIN resliceTable = Orientations
        /\ Cardinality(Orientations) = 3
        /\ \A from \in Orientations :
            /\ DOMAIN resliceTable[from] = Orientations \ {from}
            /\ \A to \in Orientations \ {from} :
                /\ Len(resliceTable[from][to]) = 3
                /\ {MathAbs(resliceTable[from][to][k]) : k \in 1..3} = {0, 1, 2}
        /\ Cardinality({<<from, to>> \in Orientations \X Orientations :
                            to \in DOMAIN resliceTable[from]}) = 6

\* A table entry has been looked up and recorded with every output slice.
C7_Witness ==
    /\ reslicedData.kind = "call"
    /\ reslicedData.result.kind = "ok"
    /\ \A id \in DOMAIN reslicedData.result.instances :
        reslicedData.result.instances[id].permuteTable
            = resliceTable[reslicedData.from][reslicedData.to]

\* C8: a reslice request whose source and target orientation are the same is
\* rejected with an error: no resliced volume is returned, and the source
\* data is not returned.
C8_SelfPairRejected ==
    (reslicedData.kind = "call" /\ reslicedData.from = reslicedData.to) =>
        /\ reslicedData.result.kind = "TypeError"
        /\ reslicedData.result # [kind |-> "ok", imageIds |-> originalData.imageIds,
                                  instances |-> originalData.instances,
                                  currentImageIdIndex |-> 0]

\* A reslice to the series' own orientation has been requested.
C8_Witness ==
    /\ reslicedData.kind = "call"
    /\ reslicedData.from = reslicedData.to
    /\ reslicedData.result.kind = "TypeError"

\* C11: when the representation of the slices is absent or not a supported
\* one, getReslicedPixeldata returns a Uint8 buffer of rows x cols elements
\* instead of failing.
C11_DefaultsToUint8 ==
    (/\ reslicedSlice.kind = "call"
     /\ originalData.instances[At(originalData.imageIds, 0)].metadata.repr
            \notin SupportedReprs)
    => LET md == reslicedData.result.instances[reslicedSlice.imageId].metadata
       IN  /\ reslicedSlice.result.kind = "ok"
           /\ reslicedSlice.result.repr = "Uint8"
           /\ Len(reslicedSlice.result.data) = md.x00280010 * md.x00280011

\* The sequence position of the output slice a call is about, replaced by
\* numOutputSlices - position when the table's depth entry is negative.
FrameOfCall ==
    LET position == IndexOf(reslicedData.result.imageIds, reslicedSlice.imageId)
    IN  IF reslicedData.result.instances[reslicedSlice.imageId].permuteTable[3].neg
        THEN Len(reslicedData.result.imageIds) - position
        ELSE position

\* The source index (by axis 0, 1, 2) of output (row j, col i): i at axis
\* |t[0]|, j at axis |t[1]|, the frame at axis |t[2]|.
SourceOfCall(j, i) ==
    LET t == reslicedData.result.instances[reslicedSlice.imageId].permuteTable
    IN  [a \in 0..2 |-> IF a = t[1].abs THEN i ELSE IF a = t[2].abs THEN j ELSE FrameOfCall]

\* The output offset of (row j, col i): j * cols + i, or rows * cols - j * cols
\* + i when t[1] is negative.
OffsetOfCall(j, i) ==
    LET inst == reslicedData.result.instances[reslicedSlice.imageId]
    IN  IF inst.permuteTable[2].neg
        THEN inst.metadata.x00280010 * inst.metadata.x00280011
                - j * inst.metadata.x00280011 + i
        ELSE j * inst.metadata.x00280011 + i

\* C14: for every output (row j, col i) of the slice, getReslicedPixeldata
\* stores the value of the source voxel with i at source axis |t[0]|, j at
\* axis |t[1]| and the (flipped) frame at axis |t[2]|, read at offset
\* j_src * sourceCols + i_src of source slice f_src, at offset j * cols + i of
\* the output, or rows * cols - j * cols + i when t[1] is negative.
C14_StoresSourceVoxel ==
    (reslicedSlice.kind = "call" /\ reslicedSlice.result.kind = "ok") =>
        LET md == reslicedData.result.instances[reslicedSlice.imageId].metadata
            fromSize == FromSizeOf(originalData)
        IN  \A j \in 0..(md.x00280010 - 1), i \in 0..(md.x00280011 - 1) :
                LET src == SourceOfCall(j, i)
                IN  /\ \A a \in 0..2 : src[a] >= 0 /\ src[a] < fromSize[a + 1]
                    /\ OffsetOfCall(j, i) >= 0
                    /\ OffsetOfCall(j, i) < md.x00280010 * md.x00280011
                    /\ At(reslicedSlice.result.data, OffsetOfCall(j, i))
                        = ToTyped(md.repr,
                                  At(originalData.instances[
                                         At(originalData.imageIds, src[2])].pixelData,
                                     src[1] * fromSize[1] + src[0]))

\* C17: for every output (row, col) of the slice, getReslicedPixeldata
\* indexes inside its buffers: the write offset lies in [0, rows * cols), and
\* the source read uses a column index < sourceCols, a row index < sourceRows
\* and a slice index < numSourceSlices.
C17_IndexesInside ==
    (reslicedSlice.kind = "call" /\ reslicedSlice.result.kind = "ok") =>
        LET inst == reslicedData.result.instances[reslicedSlice.imageId]
            rows == inst.metadata.x00280010
            cols == inst.metadata.x00280011
            fromSize == FromSizeOf(originalData)
        IN  \A j \in 0..(rows - 1), i \in 0..(cols - 1) :
                LET ijf == SourceIjf(AbsTable(inst.permuteTable), i, j, FrameOfCall)
                    index == OutputIndex(inst.permuteTable, rows, cols, i, j)
                IN  /\ index >= 0 /\ index < rows * cols
                    /\ At(ijf, 0) >= 0 /\ At(ijf, 0) < At(fromSize, 0)
                    /\ At(ijf, 1) >= 0 /\ At(ijf, 1) < At(fromSize, 1)
                    /\ At(ijf, 2) >= 0 /\ At(ijf, 2) < At(fromSize, 2)

\* The pixels of every output slice of the resliced series, by sequence
\* position.
ReslicedVolume ==
    [f \in 1..Len(reslicedData.result.imageIds) |->
        getReslicedPixeldata(reslicedData.result.imageIds[f], originalData,
                             reslicedData.result).data]

\* The value of every voxel of the source series (each voxel has its own).
SourceValues ==
    {originalData.instances[originalData.imageIds[f]].pixelData[k] :
        f \in 1..Len(originalData.imageIds),
        k \in 1..(FromSizeOf(originalData)[1] * FromSizeOf(originalData)[2])}

\* C18: over all output slices taken together, each source voxel is the
\* sample of exactly one output location, and every output location holds
\* the value of a source voxel.
C18_NoLossNoDuplication ==
    (reslicedSlice.kind = "call" /\ reslicedSlice.result.kind = "ok") =>
        /\ \A v \in SourceValues :
                Cardinality({fk \in {<<f, k>> : f \in 1..Len(ReslicedVolume),
                                                k \in 1..Len(ReslicedVolume[1])} :
                                ReslicedVolume[fk[1]][fk[2]] = v}) = 1
        /\ \A f \in 1..Len(ReslicedVolume) :
                \A k \in 1..Len(ReslicedVolume[f]) : ReslicedVolume[f][k] \in SourceValues

\* The axis a slice of a canonical orientation is normal to.
NormalAxis(orientation) ==
    IF orientation = "sagittal" THEN 0 ELSE IF orientation = "coronal" THEN 1 ELSE 2

\* C15: for every output slice index f, getReslicedMetadata sets the slice
\* position to base + index x spacing x versor: base is the source
\* first-slice position, shifted along the source normal by numSourceSlices
\* x interSliceSpacing exactly when t[1] is negative; index is f, or
\* targetDepth - f when the table entry of the target's normal axis (for
\* axial to coronal: the depth entry) is negative; the step is the column
\* spacing along the source row direction for a sagittal target and for
\* sagittal to coronal, else the row spacing along the source column
\* direction.  The slice location is the component of that position along
\* the major axis of the resliced normal.
C15_ReslicedPosition ==
    (reslicedData.kind = "call" /\ reslicedData.from # reslicedData.to) =>
        LET from == reslicedData.from
            to == reslicedData.to
            res == reslicedData.result
            t == resliceTable[from][to]
            sample == originalData.instances[At(originalData.imageIds, 0)].metadata
            u == SubSeq(sample.x00200037, 1, 3)
            v == SubSeq(sample.x00200037, 4, 6)
            w == getNormalOrientation(sample.x00200037)
            fromSpacing == spacingArray(originalData, sample)
            numSourceSlices == Len(originalData.imageIds)
            targetDepth == Len(res.imageIds)
            base == [c \in 1..3 |->
                        IF t[2].neg
                        THEN sample.x00200032[c] + numSourceSlices * At(fromSpacing, 2) * w[c]
                        ELSE sample.x00200032[c]]
            entry == IF from = "axial" /\ to = "coronal" THEN t[3]
                     ELSE t[NormalAxis(to) + 1]
            alongRow == to = "sagittal" \/ (from = "sagittal" /\ to = "coronal")
            spacing == IF alongRow THEN At(fromSpacing, 0) ELSE At(fromSpacing, 1)
            versor == IF alongRow THEN u ELSE v
        IN  /\ res.kind = "ok"
            /\ \A f \in 0..(targetDepth - 1) :
                LET md == res.instances[At(res.imageIds, f)].metadata
                    index == IF entry.neg THEN targetDepth - f ELSE f
                    position == [c \in 1..3 |-> base[c] + index * spacing * versor[c]]
                IN  /\ md.x00200032 = position
                    /\ md.x00201041 = At(position, MajorIndex(md.x00200037))

\* A sagittal series has been resliced to axial slices, several of them, at
\* positions counted down from the slice count.
C15_Witness ==
    /\ reslicedData.kind = "call"
    /\ reslicedData.from = "sagittal" /\ reslicedData.to = "axial"
    /\ reslicedData.result.kind = "ok"
    /\ Len(reslicedData.result.imageIds) > 1
    /\ reslicedData.result.instances[At(reslicedData.result.imageIds, 0)].metadata.x00200032
          # originalData.instances[At(originalData.imageIds, 0)].metadata.x00200032

\* The patient-space point of voxel (col i, row j) of a slice with the given
\* metadata: position + i x column spacing x row direction + j x row spacing
\* x column direction.
PatientPoint(md, i, j) ==
    [c \in 1..3 |->
        md.x00200032[c] + i * At(md.x00280030, 1) * md.x00200037[c]
                        + j * At(md.x00280030, 0) * md.x00200037[c + 3]]

\* The source voxels <<i, j, f>> that hold the value v.
SourceVoxelsOf(v) ==
    {ijf \in Voxels(FromSizeOf(originalData)) :
        ToTyped(originalData.instances[At(originalData.imageIds, 0)].metadata.repr,
                At(originalData.instances[At(originalData.imageIds, ijf[3])].pixelData,
                   ijf[2] * FromSizeOf(originalData)[1] + ijf[1])) = v}

\* C20: for every output voxel (i, j) of the slice, the patient-space point
\* the resliced metadata give it equals the patient-space point of the source
\* voxel whose value getReslicedPixeldata stored there.
C20_GeometryAgreesWithPixels ==
    (reslicedSlice.kind = "call" /\ reslicedSlice.result.kind = "ok") =>
        LET md == reslicedData.result.instances[reslicedSlice.imageId].metadata
        IN  \A j \in 0..(md.x00280010 - 1), i \in 0..(md.x00280011 - 1) :
                LET v == At(reslicedSlice.result.data, j * md.x00280011 + i)
                IN  /\ SourceVoxelsOf(v) # {}
                    /\ \A ijf \in SourceVoxelsOf(v) :
                        PatientPoint(md, i, j)
                            = PatientPoint(
                                originalData.instances[
                                    At(originalData.imageIds, ijf[3])].metadata,
                                ijf[1], ijf[2])

\* ------------------------------------------------- distance between slices

\* Largest number of slices of a series whose distances are asked for.
MaxDistSlices == 2

\* What a slice may carry as orientation: <<imageOrientation, x00200037>>.
OrientationInputs ==
    {<<Absent, Absent>>,
     <<<<1, 0, 0, 0, 1, 0>>, Absent>>,
     <<Absent, <<1, 0, 0, 0, 1, 0>>>>,
     <<<<1, 1, 0, 0, 1, 1>>, <<1, 0, 0, 0, 1, 0>>>>}

\* What a slice may carry as position: <<imagePosition, x00200032>>.
PositionInputs ==
    {<<Absent, Absent>>,
     <<<<0, 0, 0>>, Absent>>,
     <<Absent, <<0, 0, 5>>>>,
     <<<<3, 4, -2>>, <<0, 0, 5>>>>}

DistSliceInputs ==
    {[imageOrientation |-> o[1], x00200037 |-> o[2],
      imagePosition |-> p[1], x00200032 |-> p[2]] :
        o \in OrientationInputs, p \in PositionInputs}

\* A series of the given slice metadata.
MkDistSeries(mds) ==
    [kind |-> "series",
     imageIds |-> [f \in 1..Len(mds) |-> OrigId(f - 1)],
     instances |-> [id \in {OrigId(f) : f \in 0..(Len(mds) - 1)} |->
                       [metadata |-> mds[id[2] + 1]]]]

InitDist ==
    /\ \E n \in 0..MaxDistSlices :
        distSeries \in {MkDistSeries(mds) : mds \in [1..n -> DistSliceInputs]}
    /\ distCall = None
    /\ serieDimensions = Idle /\ voxel = Idle /\ remapped = Idle /\ roundTrip = Idle
    /\ originalData = Idle /\ reslicedData = Idle /\ reslicedSlice = Idle
    /\ sortSeries = Idle /\ sortCall = Idle
    /\ cacheSeries = Idle /\ cachedImages = Idle /\ imageLoads = Idle
    /\ saveCalls = Idle /\ builtData = Idle
    /\ keySlice = Idle /\ keyCall = Idle
    /\ pixelData = Idle /\ minMaxCall = Idle

\* A caller asks for the distance between two slices of the series.
GetDistanceBetweenSlices ==
    \E i \in 0..(MaxDistSlices - 1), j \in 0..(MaxDistSlices - 1) :
        /\ distCall' = [kind |-> "call", sliceIndex1 |-> i, sliceIndex2 |-> j,
                        result |-> getDistanceBetweenSlices(distSeries, i, j)]
        /\ UNCHANGED <<distSeries, remapVars, resliceVars, sortVars, cacheVars, keyVars, minMaxVars>>

NextDist == GetDistanceBetweenSlices

SpecDist == InitDist /\ [][NextDist]_vars

\* The metadata of the slice a call's index names.
DistMetadata(k) == distSeries.instances[distSeries.imageIds[k + 1]].metadata

\* Both indices of the call name slices of a series of at least two slices.
DistCallValid ==
    /\ distCall.kind = "call"
    /\ Len(distSeries.imageIds) >= 2
    /\ distCall.sliceIndex1 < Len(distSeries.imageIds)
    /\ distCall.sliceIndex2 < Len(distSeries.imageIds)

\* The orientation and the position a slice carries, <<>> when it has none.
OrientationOfSlice(k) ==
    IF DistMetadata(k).imageOrientation # <<>> THEN DistMetadata(k).imageOrientation
    ELSE DistMetadata(k).x00200037

PositionOfSlice(k) ==
    IF DistMetadata(k).imagePosition # <<>> THEN DistMetadata(k).imagePosition
    ELSE DistMetadata(k).x00200032

\* C6: for a series of at least two slices, with the orientation and position
\* of slice i and the position of slice j present,
\* getDistanceBetweenSlices(series, i, j) is |n.p_i - n.p_j|, n being the cross
\* product of the row and column direction of slice i; it is 0 for j = i, and 5
\* for orientation [1,0,0,0,1,0] and positions [0,0,0] and [0,0,5].
C6_Distance ==
    (/\ DistCallValid
     /\ OrientationOfSlice(distCall.sliceIndex1) # <<>>
     /\ PositionOfSlice(distCall.sliceIndex1) # <<>>
     /\ PositionOfSlice(distCall.sliceIndex2) # <<>>) =>
        LET o == OrientationOfSlice(distCall.sliceIndex1)
            p == PositionOfSlice(distCall.sliceIndex1)
            q == PositionOfSlice(distCall.sliceIndex2)
            nx == o[2] * o[6] - o[3] * o[5]
            ny == o[3] * o[4] - o[1] * o[6]
            nz == o[1] * o[5] - o[2] * o[4]
            d == (nx * p[1] + ny * p[2] + nz * p[3]) - (nx * q[1] + ny * q[2] + nz * q[3])
        IN  /\ distCall.result.kind = "value"
            /\ distCall.result.value = (IF d < 0 THEN -d ELSE d)
            /\ distCall.sliceIndex1 = distCall.sliceIndex2 => distCall.result.value = 0
            /\ (o = <<1, 0, 0, 0, 1, 0>> /\ {p, q} = {<<0, 0, 0>>, <<0, 0, 5>>})
                   => distCall.result.value = 5

\* The distance between two axial slices at [0,0,0] and [0,0,5] has been
\* computed, and it is 5.
C6_Witness ==
    /\ DistCallValid
    /\ distCall.sliceIndex1 # distCall.sliceIndex2
    /\ OrientationOfSlice(distCall.sliceIndex1) = <<1, 0, 0, 0, 1, 0>>
    /\ PositionOfSlice(distCall.sliceIndex1) = <<0, 0, 0>>
    /\ PositionOfSlice(distCall.sliceIndex2) = <<0, 0, 5>>
    /\ distCall.result = [kind |-> "value", value |-> 5]

\* C10: getDistanceBetweenSlices returns 0 when the series has at most one
\* slice; when the orientation or the position is absent on either of the two
\* referenced slices it returns undefined, and raises no error.
C10_AbsentIsUndefined ==
    distCall.kind = "call" =>
        /\ Len(distSeries.imageIds) <= 1 =>
               distCall.result = [kind |-> "value", value |-> 0]
        /\ (/\ DistCallValid
            /\ \E k \in {distCall.sliceIndex1, distCall.sliceIndex2} :
                   OrientationOfSlice(k) = <<>> \/ PositionOfSlice(k) = <<>>)
               => distCall.result.kind = "undefined"

\* ------------------------------------------------------------ slice orderer

\* Largest number of slices of a series that is sorted.
MaxSortSlices == 2

\* A scalar attribute a slice carries (<<v>>) or not (<<>>).
Some(v) == <<v>>

\* What a slice may carry as instance number (x00200013).
InstanceNumberInputs == {<<>>, Some(1), Some(2)}

\* What a slice may carry as <<cardiacNumberOfImages (x00181090), contentTime
\* (x00080033)>>.
GatingInputs ==
    {<<<<>>, Some(10)>>, <<Some(1), Some(10)>>, <<Some(2), <<>>>>,
     <<Some(2), Some(10)>>, <<Some(2), Some(20)>>}

\* What a slice may carry as <<imageOrientation, imagePosition>>.
PlacementInputs ==
    {<<Absent, Absent>>,
     <<<<1, 0, 0, 0, 1, 0>>, <<0, 0, 0>>>>,
     <<<<1, 0, 0, 0, 1, 0>>, <<0, 0, 5>>>>}

\* The slices a series may hold: every instance number with every gating at
\* one placement, and with every placement at one gating.
SortSliceInputs ==
    {[x00200013 |-> i, x00181090 |-> g[1], x00080033 |-> g[2],
      imageOrientation |-> p[1], imagePosition |-> p[2]] :
        i \in InstanceNumberInputs, g \in GatingInputs,
        p \in {<<<<1, 0, 0, 0, 1, 0>>, <<0, 0, 0>>>>}}
    \cup
    {[x00200013 |-> i, x00181090 |-> g[1], x00080033 |-> g[2],
      imageOrientation |-> p[1], imagePosition |-> p[2]] :
        i \in InstanceNumberInputs, g \in {<<Some(2), Some(20)>>},
        p \in PlacementInputs}

SortMethods == {"instanceNumber", "contentTime", "imagePosition"}

\* The priority lists a caller may pass: every list of distinct methods.
PriorityInputs ==
    UNION {{s \in [1..n -> SortMethods] : \A a, b \in 1..n : a # b => s[a] # s[b]} :
              n \in 0..Cardinality(SortMethods)}

\* The values a sort callback returns: a number, NaN or undefined.
NumKey(v) == [t |-> "num", v |-> v]

NaNKey == [t |-> "NaN"]

UndefinedKey == [t |-> "undefined"]

\* The axis sortStackCallback picks for an orientation: the three ifs run in
\* turn, the last one that holds wins, and none may hold (-1: undefined).
SortIndex(o) ==
    LET v1 == At(o, 0) * At(o, 0) + At(o, 3) * At(o, 3)
        v2 == At(o, 1) * At(o, 1) + At(o, 4) * At(o, 4)
        v3 == At(o, 2) * At(o, 2) + At(o, 5) * At(o, 5)
    IN  IF v3 <= v1 /\ v3 <= v2 THEN 2
        ELSE IF v2 <= v1 /\ v2 <= v3 THEN 1
        ELSE IF v1 <= v2 /\ v2 <= v3 THEN 0
        ELSE -1

\* sortStackCallback(seriesData, imageId, method): the sort value of a slice,
\* or the exception it throws.
sortStackCallback(seriesData, imageId, method) ==
    LET md == seriesData.instances[imageId].metadata
    IN  IF method = "instanceNumber"
        THEN [kind |-> "key",
              key |-> IF md.x00200013 = <<>> THEN NaNKey ELSE NumKey(md.x00200013[1])]
        ELSE IF method = "contentTime"
        THEN IF /\ md.x00181090 # <<>>
                /\ md.x00181090[1] # 0
                /\ md.x00181090[1] > 1
                /\ md.x00080033 # <<>>
             THEN [kind |-> "key", key |-> NumKey(md.x00080033[1])]
             ELSE [kind |-> "throw"]
        ELSE IF method = "imagePosition"
        THEN IF md.imageOrientation = Absent \/ md.imagePosition = Absent
             THEN [kind |-> "key", key |-> UndefinedKey]
             ELSE IF SortIndex(md.imageOrientation) = -1
                  THEN [kind |-> "key", key |-> UndefinedKey]
                  ELSE [kind |-> "key",
                        key |-> NumKey(At(md.imagePosition, SortIndex(md.imageOrientation)))]
        ELSE [kind |-> "key", key |-> UndefinedKey]

\* lodash compareAscending(value, other): numbers ascending, undefined after
\* every number, NaN after everything; NaN against NaN answers 1 both ways.
compareAscending(value, other) ==
    IF value.t = "num" /\ other.t = "num"
    THEN (IF value.v > other.v THEN 1 ELSE IF value.v < other.v THEN -1 ELSE 0)
    ELSE IF value.t = "undefined" /\ other.t = "undefined" THEN 0
    ELSE IF value.t = "NaN" THEN 1
    ELSE IF other.t = "NaN" THEN -1
    ELSE IF value.t = "undefined" THEN 1
    ELSE -1

\* The permutations of 1..n.
Permutations1(n) == {p \in [1..n -> 1..n] : \A a, b \in 1..n : a # b => p[a] # p[b]}

\* lodash sortBy(ids, iteratee), the keys being given: a stable ascending
\* sort.  Two NaN keys compare inconsistently, so the order the native sort
\* leaves them in is not determined: every order of them is a possible result.
sortBy(ids, keys) ==
    {[k \in 1..Len(ids) |-> ids[p[k]]] :
        p \in {q \in Permutations1(Len(ids)) :
                 \A a, b \in 1..Len(ids) :
                    a < b =>
                        \/ keys[q[a]].t = "NaN" /\ keys[q[b]].t = "NaN"
                        \/ compareAscending(keys[q[a]], keys[q[b]]) < 0
                        \/ /\ compareAscending(keys[q[a]], keys[q[b]]) = 0
                           /\ q[a] < q[b]}}

RECURSIVE tryToSortKeep(_, _)
tryToSortKeep(data, methods) ==
    IF methods = <<>> THEN {[kind |-> "undefined"]}
    ELSE LET sortMethod == Head(methods)
             called == [k \in 1..Len(data.imageIds) |->
                           sortStackCallback(data, data.imageIds[k], sortMethod)]
         IN  IF \E k \in 1..Len(data.imageIds) : called[k].kind = "throw"
             THEN {[kind |-> "ok", sorted |-> data.imageIds]}
             ELSE {[kind |-> "ok", sorted |-> r] :
                      r \in sortBy(data.imageIds,
                                   [k \in 1..Len(data.imageIds) |-> called[k].key])}

\* tryToSort(data, methods): the results the first method whose callback
\* throws on no slice may give; `sorted` is still undefined when the list runs
\* out.
RECURSIVE tryToSort(_, _)
tryToSort(data, methods) ==
    IF methods = <<>> THEN {[kind |-> "undefined"]}
    ELSE LET sortMethod == Head(methods)
             called == [k \in 1..Len(data.imageIds) |->
                           sortStackCallback(data, data.imageIds[k], sortMethod)]
         IN  IF \E k \in 1..Len(data.imageIds) : called[k].kind = "throw"
             THEN tryToSort(data, Tail(methods))
             ELSE {[kind |-> "ok", sorted |-> r] :
                      r \in sortBy(data.imageIds,
                                   [k \in 1..Len(data.imageIds) |-> called[k].key])}

\* getSortedStack(seriesData, sortPriorities, returnSuccessMethod)
getSortedStack(seriesData, sortPriorities) == tryToSort(seriesData, sortPriorities)

\* A series of the given slice metadata, in the order the loader left it.
MkSortSeries(mds) ==
    [kind |-> "series",
     imageIds |-> [f \in 1..Len(mds) |-> OrigId(f - 1)],
     instances |-> [id \in {OrigId(f) : f \in 0..(Len(mds) - 1)} |->
                       [metadata |-> mds[id[2] + 1]]]]

InitSort ==
    /\ \E n \in 0..MaxSortSlices :
        sortSeries \in {MkSortSeries(mds) : mds \in [1..n -> SortSliceInputs]}
    /\ sortCall = None
    /\ serieDimensions = Idle /\ voxel = Idle /\ remapped = Idle /\ roundTrip = Idle
    /\ originalData = Idle /\ reslicedData = Idle /\ reslicedSlice = Idle
    /\ distSeries = Idle /\ distCall = Idle
    /\ cacheSeries = Idle /\ cachedImages = Idle /\ imageLoads = Idle
    /\ saveCalls = Idle /\ builtData = Idle
    /\ keySlice = Idle /\ keyCall = Idle
    /\ pixelData = Idle /\ minMaxCall = Idle

\* A caller asks for the sorted stack of the series.
GetSortedStack ==
    /\ sortCall.kind = "none"
    /\ \E sortPriorities \in PriorityInputs :
        \E result \in getSortedStack(sortSeries, sortPriorities) :
            sortCall' = [kind |-> "call", sortPriorities |-> sortPriorities,
                         result |-> result]
    /\ UNCHANGED <<sortSeries, remapVars, resliceVars, distVars, cacheVars, keyVars, minMaxVars>>

NextSort == GetSortedStack

SpecSort == InitSort /\ [][NextSort]_vars

\* The metadata of a slice of the sorted series.
SortMetadata(id) == sortSeries.instances[id].metadata

\* The slice is not part of a gated time series: no cardiac count above 1, or
\* no content time.
NotGated(id) ==
    \/ SortMetadata(id).x00181090 = <<>>
    \/ SortMetadata(id).x00181090[1] <= 1
    \/ SortMetadata(id).x00080033 = <<>>

\* The call C5 is about: content time first, instance number second, on a
\* series with a slice that is not gated.
C5_Case ==
    /\ sortCall.kind = "call"
    /\ sortCall.sortPriorities = <<"contentTime", "instanceNumber">>
    /\ \E k \in 1..Len(sortSeries.imageIds) : NotGated(sortSeries.imageIds[k])

\* The result holds every slice identifier of the series exactly once.
IsPermutationOfIds(sorted) ==
    /\ Len(sorted) = Len(sortSeries.imageIds)
    /\ \A k \in 1..Len(sortSeries.imageIds) :
        \E m \in 1..Len(sorted) : sorted[m] = sortSeries.imageIds[k]

Eligible(method) ==
    \A k \in 1..Len(sortSeries.imageIds) :
        LET md == SortMetadata(sortSeries.imageIds[k])
        IN  IF method = "instanceNumber" THEN md.x00200013 # <<>>
            ELSE IF method = "contentTime" THEN ~NotGated(sortSeries.imageIds[k])
            ELSE md.imageOrientation # Absent /\ md.imagePosition # Absent

\* The first method of a priority list that is eligible (there is one).
FirstEligible(sortPriorities) ==
    sortPriorities[CHOOSE k \in 1..Len(sortPriorities) :
                       /\ Eligible(sortPriorities[k])
                       /\ \A m \in 1..(k - 1) : ~Eligible(sortPriorities[m])]

\* C12: a method whose attribute is absent on some slice is discarded, and
\* the result is the ordering of the first method of the priority list whose
\* attributes are present on every slice: all slice identifiers, their keys of
\* that method never descending.
C12_FirstEligibleMethod ==
    (/\ sortCall.kind = "call"
     /\ \E k \in 1..Len(sortCall.sortPriorities) : Eligible(sortCall.sortPriorities[k]))
    => LET method == FirstEligible(sortCall.sortPriorities)
           keyOf(id) == sortStackCallback(sortSeries, id, method).key
       IN  /\ sortCall.result.kind = "ok"
           /\ IsPermutationOfIds(sortCall.result.sorted)
           /\ \A a, b \in 1..Len(sortCall.result.sorted) :
                a < b => compareAscending(keyOf(sortCall.result.sorted[a]),
                                          keyOf(sortCall.result.sorted[b])) <= 0

\* C13: when no method of the priority list is eligible for the series (the
\* empty list included), getSortedStack returns the series' slice
\* identifiers in their input order.
C13_UnsortedWhenNoMethod ==
    (/\ sortCall.kind = "call"
     /\ \A k \in 1..Len(sortCall.sortPriorities) : ~Eligible(sortCall.sortPriorities[k]))
    => /\ sortCall.result.kind = "ok"
       /\ sortCall.result.sorted = sortSeries.imageIds

\* ------------------------------------------------------- position sort key

\* The components direction cosines take here, in fifths (3/5, 4/5, 1, ...).
Fifths == {-5, -4, -3, 0, 3, 4, 5}

\* The orientations a slice may have: every pair of orthogonal unit vectors
\* (row, column) with components in fifths, written in fifths.  The scale does
\* not change which of the three sums of squares is least.
ObliqueOrientationInputs ==
    {o \in [1..6 -> Fifths] :
        /\ o[1] * o[1] + o[2] * o[2] + o[3] * o[3] = 25
        /\ o[4] * o[4] + o[5] * o[5] + o[6] * o[6] = 25
        /\ o[1] * o[4] + o[2] * o[5] + o[3] * o[6] = 0}

\* The positions a slice may have (three different components).
KeyPositionInputs == {<<10, -20, 30>>, <<-7, 8, 9>>}

InitKey ==
    /\ \E o \in ObliqueOrientationInputs, p \in KeyPositionInputs :
        keySlice = [x00200013 |-> Some(1), x00181090 |-> Some(2),
                    x00080033 |-> Some(20),
                    imageOrientation |-> o, imagePosition |-> p]
    /\ keyCall = None
    /\ serieDimensions = Idle /\ voxel = Idle /\ remapped = Idle /\ roundTrip = Idle
    /\ originalData = Idle /\ reslicedData = Idle /\ reslicedSlice = Idle
    /\ distSeries = Idle /\ distCall = Idle
    /\ sortSeries = Idle /\ sortCall = Idle
    /\ cacheSeries = Idle /\ cachedImages = Idle /\ imageLoads = Idle
    /\ saveCalls = Idle /\ builtData = Idle
    /\ pixelData = Idle /\ minMaxCall = Idle

\* The sort compares a slice: sortStackCallback(seriesData, imageId, method).
SortStackCallback ==
    \E method \in SortMethods :
        /\ keyCall' = [kind |-> "call", method |-> method,
                       result |-> sortStackCallback(MkSortSeries(<<keySlice>>),
                                                    OrigId(0), method)]
        /\ UNCHANGED <<keySlice, remapVars, resliceVars, distVars, sortVars, cacheVars, minMaxVars>>

NextKey == SortStackCallback

SpecKey == InitKey /\ [][NextKey]_vars

\* row_k^2 + col_k^2 of the slice's orientation, for axis k.
AxisValue(k) ==
    At(keySlice.imageOrientation, k) * At(keySlice.imageOrientation, k)
        + At(keySlice.imageOrientation, k + 3) * At(keySlice.imageOrientation, k + 3)

\* C16: in position order the sort key of a slice is the component of its
\* position along an axis k that minimises row_k^2 + col_k^2 of the slice's
\* own orientation; for every orientation such an axis is chosen.
C16_KeyAlongLeastAxis ==
    (keyCall.kind = "call" /\ keyCall.method = "imagePosition") =>
        /\ keyCall.result.kind = "key"
        /\ keyCall.result.key.t = "num"
        /\ \E k \in 0..2 :
            /\ \A m \in 0..2 : AxisValue(k) <= AxisValue(m)
            /\ keyCall.result.key.v = At(keySlice.imagePosition, k)

\* ------------------------------------------------------------ pixel extrema

\* Largest number of elements of a pixel buffer.
MaxBufferLen == 3

\* The values an element of a pixel buffer, or a supplied value, may have.
PixelValues == -2..2

\* The pixel buffers: every content of every length up to MaxBufferLen.
PixelBuffers == UNION {[1..n -> PixelValues] : n \in 0..MaxBufferLen}

\* What a call may be given as value: undefined, or a number.
ValueInputs == {Absent} \cup {Some(v) : v \in PixelValues}

\* !x of JavaScript for x undefined or a number.
Not(x) == x = Absent \/ x = Some(0)

\* The loop of getMinPixelValue from index i on, with min as it stands.
RECURSIVE MinLoop(_, _, _)
MinLoop(buffer, i, min) ==
    IF i >= Len(buffer) THEN min
    ELSE MinLoop(buffer, i + 1,
                 IF Not(min) \/ min[1] > At(buffer, i) THEN Some(At(buffer, i)) ELSE min)

\* The loop of getMaxPixelValue from index i on, with max as it stands.
RECURSIVE MaxLoop(_, _, _)
MaxLoop(buffer, i, max) ==
    IF i >= Len(buffer) THEN max
    ELSE MaxLoop(buffer, i + 1,
                 IF Not(max) \/ max[1] < At(buffer, i) THEN Some(At(buffer, i)) ELSE max)

\* getMinPixelValue(value, pixelData)
getMinPixelValue(value, buffer) ==
    IF value # Absent THEN value ELSE MinLoop(buffer, 0, Absent)

\* getMaxPixelValue(value, pixelData)
getMaxPixelValue(value, buffer) ==
    IF value # Absent THEN value ELSE MaxLoop(buffer, 0, Absent)

InitMinMax ==
    /\ pixelData \in PixelBuffers
    /\ minMaxCall = None
    /\ serieDimensions = Idle /\ voxel = Idle /\ remapped = Idle /\ roundTrip = Idle
    /\ originalData = Idle /\ reslicedData = Idle /\ reslicedSlice = Idle
    /\ distSeries = Idle /\ distCall = Idle
    /\ sortSeries = Idle /\ sortCall = Idle
    /\ cacheSeries = Idle /\ cachedImages = Idle /\ imageLoads = Idle
    /\ saveCalls = Idle /\ builtData = Idle
    /\ keySlice = Idle /\ keyCall = Idle

\* getMinPixelValue(value, pixelData) is called.
GetMinPixelValue ==
    \E value \in ValueInputs :
        /\ minMaxCall' = [kind |-> "call", function |-> "getMinPixelValue", value |-> value,
                          result |-> getMinPixelValue(value, pixelData)]
        /\ UNCHANGED <<pixelData, remapVars, resliceVars, distVars, sortVars, cacheVars, keyVars>>

\* getMaxPixelValue(value, pixelData) is called.
GetMaxPixelValue ==
    \E value \in ValueInputs :
        /\ minMaxCall' = [kind |-> "call", function |-> "getMaxPixelValue", value |-> value,
                          result |-> getMaxPixelValue(value, pixelData)]
        /\ UNCHANGED <<pixelData, remapVars, resliceVars, distVars, sortVars, cacheVars, keyVars>>

NextMinMax ==
    \/ GetMinPixelValue
    \/ GetMaxPixelValue

SpecMinMax == InitMinMax /\ [][NextMinMax]_vars

\* The elements of the pixel buffer.
Elements == {pixelData[k] : k \in 1..Len(pixelData)}

\* C22: without a supplied value getMinPixelValue returns the least element
\* and getMaxPixelValue the greatest element of a non-empty pixel buffer,
\* whatever the buffer holds (0 and negative values included); a supplied
\* value is returned unchanged.
C22_LeastAndGreatest ==
    minMaxCall.kind = "call" =>
        /\ minMaxCall.value # Absent => minMaxCall.result = minMaxCall.value
        /\ (minMaxCall.value = Absent /\ pixelData # <<>>) =>
            /\ minMaxCall.result # Absent
            /\ minMaxCall.result[1] \in Elements
            /\ minMaxCall.function = "getMinPixelValue"
                => \A e \in Elements : minMaxCall.result[1] <= e
            /\ minMaxCall.function = "getMaxPixelValue"
                => \A e \in Elements : minMaxCall.result[1] >= e

\* ---------------------------------------------------------- volume assembler

\* Most slices of one series held by the application.
MaxCacheSlices == 2

\* Most image load objects the loader creates in one run.
MaxLoads == 3

\* The series the application holds.
SeriesNames == {"A", "B"}

\* The identifier of slice f of the series called name.
SliceId(name, f) == <<name, f>>

\* The value of voxel k of slice f of a series: every voxel of every series
\* holds a value of its own.
VoxelValue(name, f, cols, k) ==
    (IF name = "A" THEN 0 ELSE 100) + 1 + f * cols + (k - 1)

\* A parsed series of n axial slices of one row and cols columns; the parser
\* fills the attribute aliases next to the raw tags (rows and cols: 0, it
\* leaves them out).
MkCacheSeries(name, n, cols, repr) ==
    [kind |-> "series",
     name |-> name,
     imageIds |-> [f \in 1..n |-> SliceId(name, f - 1)],
     instances |->
        [id \in {SliceId(name, f) : f \in 0..(n - 1)} |->
            [metadata |->
                [seriesUID |-> name, rows |-> 0, x00280010 |-> 1,
                 cols |-> 0, x00280011 |-> cols, repr |-> repr,
                 slope |-> 1, intercept |-> 0,
                 imageOrientation |-> CanonicalIOP("axial"),
                 x00200037 |-> CanonicalIOP("axial"),
                 imagePosition |-> <<0, 0, 5 * id[2]>>,
                 x00200032 |-> <<0, 0, 5 * id[2]>>,
                 pixelSpacing |-> <<2, 3>>,
                 minPixelValue |-> VoxelValue(name, id[2], cols, 1),
                 maxPixelValue |-> VoxelValue(name, id[2], cols, cols)],
             pixelData |-> [k \in 1..cols |-> VoxelValue(name, id[2], cols, k)]]]]

\* The pairs of series a run starts from.
CacheSeriesInputs ==
    {[s \in SeriesNames |->
        IF s = "A" THEN MkCacheSeries("A", n, cols, repr)
        ELSE MkCacheSeries("B", 1, 2, "Uint16")] :
        n \in 1..MaxCacheSlices, cols \in 1..2, repr \in {"Uint16", "Sint16"}}

\* The series an image identifier belongs to.
SeriesOfImage(imageId) == cacheSeries[imageId[1]]

\* image.getPixelData() of a loaded image: the decoded pixels of the slice.
getPixelData(imageId) == SeriesOfImage(imageId).instances[imageId].pixelData

\* cornerstone.imageCache.purgeCache(): the cache forgets every image; the
\* load objects it held stay alive for whoever holds their promises.
purgeCache(cache) == [cache EXCEPT !.cachedImages = <<>>]

\* The index in cachedImages of the entry of imageId, 0 when there is none.
CacheIndexOf(cached, imageId) ==
    IF \E k \in 1..Len(cached) : cached[k].imageId = imageId
    THEN CHOOSE k \in 1..Len(cached) : cached[k].imageId = imageId
    ELSE 0

\* cornerstone.loadAndCacheImage(imageId): the promise of the cached load
\* object when the cache has one for imageId, else a new load whose entry is
\* appended to cachedImages at once (not loaded yet).
loadAndCacheImage(cache, imageId) ==
    IF CacheIndexOf(cache.cachedImages, imageId) # 0
    THEN [cache EXCEPT
            !.returned = Append(@,
                cache.cachedImages[CacheIndexOf(cache.cachedImages, imageId)].imageLoadObject)]
    ELSE [cachedImages |->
              Append(cache.cachedImages,
                     [imageId |-> imageId,
                      imageLoadObject |-> Len(cache.imageLoads) + 1,
                      loaded |-> FALSE]),
          imageLoads |->
              Append(cache.imageLoads, [imageId |-> imageId, state |-> "pending"]),
          returned |-> Append(cache.returned, Len(cache.imageLoads) + 1)]

\* imageIds.map(loadAndCacheImage) / each(imageIds, loadAndCacheImage): the
\* loads are requested in the order of imageIds, from index k on.
RECURSIVE LoadEach(_, _, _)
LoadEach(cache, imageIds, k) ==
    IF k > Len(imageIds) THEN cache
    ELSE LoadEach(loadAndCacheImage(cache, imageIds[k]), imageIds, k + 1)

\* The cache and the loads as one value, with no promise handed out yet.
CacheNow == [cachedImages |-> cachedImages, imageLoads |-> imageLoads, returned |-> <<>>]

\* A promise over the load objects ps that is fulfilled as soon as one of them
\* is: what waiting for any load, not for all, would be.
PromiseRace(loads, ps) ==
    IF \E k \in 1..Len(ps) : loads[ps[k]].state = "rejected" THEN "rejected"
    ELSE IF \E k \in 1..Len(ps) : loads[ps[k]].state = "resolved" THEN "fulfilled"
    ELSE "pending"

\* Promise.all over the load objects ps: rejected as soon as one is, fulfilled
\* once all are, pending otherwise.
PromiseAll(loads, ps) ==
    IF \E k \in 1..Len(ps) : loads[ps[k]].state = "rejected" THEN "rejected"
    ELSE IF \A k \in 1..Len(ps) : loads[ps[k]].state = "resolved" THEN "fulfilled"
    ELSE "pending"

\* a || b of two numbers (an absent attribute is written 0, which is falsy too).
OrElse(a, b) == IF a # 0 THEN a ELSE b

\* sum / count, kept as an exact fraction.
Quotient(sum, count) == [num |-> sum, den |-> count]

\* The running sums of getMeanValue over the slices from index k on: an array
\* tag adds component by component (a component whose sum so far is 0 or
\* missing starts again from the slice's value), a number adds up.
RECURSIVE MeanSum(_, _, _, _, _)
MeanSum(series, tag, isArray, k, meanValue) ==
    IF k > Len(series.imageIds) THEN meanValue
    ELSE
        LET tagValue == series.instances[series.imageIds[k]].metadata[tag]
        IN  MeanSum(series, tag, isArray, k + 1,
                IF isArray
                THEN [c \in 1..Len(tagValue) |->
                        IF c <= Len(meanValue) /\ meanValue[c] # 0
                        THEN meanValue[c] + tagValue[c]
                        ELSE tagValue[c]]
                ELSE meanValue + tagValue)

\* getMeanValue(series, tag, isArray), for array tags of 2, 3 or 6 components
\* (isArray) and number tags (not isArray).  Reading the length of a missing
\* tag throws a TypeError.
getMeanValue(series, tag, isArray) ==
    IF isArray /\ \E k \in 1..Len(series.imageIds) :
            series.instances[series.imageIds[k]].metadata[tag] = Absent
    THEN [kind |-> "TypeError"]
    ELSE
        LET meanValue == MeanSum(series, tag, isArray, 1, IF isArray THEN <<>> ELSE 0)
        IN  [kind |-> "value",
             value |->
                IF isArray
                THEN [c \in 1..Len(meanValue) |->
                        Quotient(meanValue[c], Len(series.imageIds))]
                ELSE Quotient(meanValue, Len(series.imageIds))]

\* buildHeader(series): the volume header from the first slice's metadata,
\* the mean values over the slices and the distance of the first two slices,
\* followed by every slice's metadata.
buildHeader(series) ==
    LET metadata == series.instances[At(series.imageIds, 0)].metadata
        imageOrientation == getMeanValue(series, "imageOrientation", TRUE)
        pixelSpacing == getMeanValue(series, "pixelSpacing", TRUE)
        maxPixelValue == getMeanValue(series, "maxPixelValue", FALSE)
        minPixelValue == getMeanValue(series, "minPixelValue", FALSE)
        sliceThickness == getDistanceBetweenSlices(series, 0, 1)
    IN  IF \/ imageOrientation.kind = "TypeError"
           \/ pixelSpacing.kind = "TypeError"
           \/ sliceThickness.kind = "TypeError"
        THEN [kind |-> "TypeError"]
        ELSE [kind |-> "value",
              volume |->
                [imageIds |-> series.imageIds,
                 seriesId |-> metadata.seriesUID,
                 rows |-> OrElse(metadata.rows, metadata.x00280010),
                 cols |-> OrElse(metadata.cols, metadata.x00280011),
                 slope |-> metadata.slope,
                 repr |-> metadata.repr,
                 intercept |-> metadata.intercept,
                 imagePosition |-> metadata.imagePosition,
                 numberOfSlices |-> Len(series.imageIds),
                 imageOrientation |-> imageOrientation.value,
                 pixelSpacing |-> pixelSpacing.value,
                 maxPixelValue |-> maxPixelValue.value,
                 minPixelValue |-> minPixelValue.value,
                 sliceThickness |-> sliceThickness],
              slices |->
                [id \in DOMAIN series.instances |-> series.instances[id].metadata]]

\* The pixel buffers buildData copies, in the order it visits them: the
\* slices' own buffers in the order of series.imageIds (useSeriesData), else
\* the images of the cache in the order of cachedImages, whatever series they
\* belong to; the image of an entry that is not loaded yet is undefined.
SliceBuffers(series, useSeriesData, cached) ==
    IF useSeriesData
    THEN [k \in 1..Len(series.imageIds) |->
            [kind |-> "value", data |-> series.instances[series.imageIds[k]].pixelData]]
    ELSE [k \in 1..Len(cached) |->
            IF cached[k].loaded
            THEN [kind |-> "value", data |-> getPixelData(cached[k].imageId)]
            ELSE [kind |-> "undefined"]]

\* data.set(sliceData, offsetData) for the buffers from index k on.  Calling
\* getPixelData of an undefined image throws a TypeError; a buffer that does
\* not fit in what is left of data throws a RangeError.
RECURSIVE CopyBuffers(_, _, _, _)
CopyBuffers(data, buffers, k, offsetData) ==
    IF k > Len(buffers) THEN data
    ELSE IF buffers[k].kind = "undefined" THEN [kind |-> "TypeError"]
    ELSE IF offsetData + Len(buffers[k].data) > Len(data.data) THEN [kind |-> "RangeError"]
    ELSE CopyBuffers(
            [data EXCEPT !.data =
                [c \in 1..Len(data.data) |->
                    IF c > offsetData /\ c <= offsetData + Len(buffers[k].data)
                    THEN ToTyped(data.repr, buffers[k].data[c - offsetData])
                    ELSE data.data[c]]],
            buffers, k + 1, offsetData + Len(buffers[k].data))

\* buildData(series, useSeriesData) over the cache contents `cached`: a typed
\* array of rows * cols * numberOfSlices elements of the first slice's
\* representation (Uint8 when it is not a supported one), filled with the
\* visited buffers one after the other.
buildData(series, useSeriesData, cached) ==
    LET metadata == series.instances[At(series.imageIds, 0)].metadata
        repr == metadata.repr
        rows == OrElse(metadata.rows, metadata.x00280010)
        cols == OrElse(metadata.cols, metadata.x00280011)
        len == rows * cols * Len(series.imageIds)
        data == [kind |-> "value",
                 repr |-> IF repr \in SupportedReprs THEN repr ELSE "Uint8",
                 data |-> [c \in 1..len |-> 0]]
    IN  CopyBuffers(data, SliceBuffers(series, useSeriesData, cached), 1, 0)

\* A cacheAndSaveSerie call that has not been made.
NoCall == [pc |-> "idle", promises |-> <<>>, header |-> None, data |-> None]

InitCache ==
    /\ cacheSeries \in CacheSeriesInputs
    /\ cachedImages = <<>>
    /\ imageLoads = <<>>
    /\ saveCalls = [s \in SeriesNames |-> NoCall]
    /\ builtData = None
    /\ serieDimensions = Idle /\ voxel = Idle /\ remapped = Idle /\ roundTrip = Idle
    /\ originalData = Idle /\ reslicedData = Idle /\ reslicedSlice = Idle
    /\ distSeries = Idle /\ distCall = Idle
    /\ sortSeries = Idle /\ sortCall = Idle
    /\ keySlice = Idle /\ keyCall = Idle
    /\ pixelData = Idle /\ minMaxCall = Idle

\* The number of loads LoadEach would create for imageIds.
NewLoads(imageIds, cached) ==
    Cardinality({k \in 1..Len(imageIds) : CacheIndexOf(cached, imageIds[k]) = 0})

\* cacheAndSaveSerie(series) up to its await: purge the cache, then request
\* the load of every slice in the order of series.imageIds, and wait for all.
CacheAndSaveSerie ==
    \E s \in SeriesNames :
        /\ builtData = None
        /\ saveCalls[s].pc = "idle"
        /\ Len(imageLoads) + Len(cacheSeries[s].imageIds) <= MaxLoads
        /\ LET requested == LoadEach(purgeCache(CacheNow), cacheSeries[s].imageIds, 1)
           IN  /\ cachedImages' = requested.cachedImages
               /\ imageLoads' = requested.imageLoads
               /\ saveCalls' = [saveCalls EXCEPT
                                  ![s] = [@ EXCEPT !.pc = "awaiting",
                                                   !.promises = requested.returned]]
        /\ UNCHANGED <<cacheSeries, builtData, remapVars, resliceVars, distVars, sortVars, keyVars, minMaxVars>>

\* cacheAndSaveSerie after its await, once the promise it waits for is
\* settled: a rejection rejects the call; otherwise buildHeader, then
\* buildData on the cache, and an exception thrown by either rejects the call.
ResumeSave(call, series, loads, cached) ==
    IF call.pc # "awaiting" \/ PromiseAll(loads, call.promises) = "pending" THEN call
    ELSE IF PromiseAll(loads, call.promises) = "rejected"
    THEN [call EXCEPT !.pc = "rejected"]
    ELSE
        LET header == buildHeader(series)
            data == buildData(series, FALSE, cached)
        IN  IF header.kind # "value"
            THEN [call EXCEPT !.pc = "rejected", !.header = header]
            ELSE [call EXCEPT
                    !.pc = IF data.kind = "value" THEN "fulfilled" ELSE "rejected",
                    !.header = header, !.data = data]

\* An image load completes: the cache marks its entry loaded (when it still
\* holds it), then the calls waiting for it go on.
LoadResolve ==
    \E p \in 1..Len(imageLoads) :
        /\ builtData = None
        /\ imageLoads[p].state = "pending"
        /\ imageLoads' = [imageLoads EXCEPT ![p].state = "resolved"]
        /\ cachedImages' =
              [k \in 1..Len(cachedImages) |->
                  IF cachedImages[k].imageLoadObject = p
                  THEN [cachedImages[k] EXCEPT !.loaded = TRUE]
                  ELSE cachedImages[k]]
        /\ saveCalls' =
              [s \in SeriesNames |->
                  ResumeSave(saveCalls[s], cacheSeries[s], imageLoads', cachedImages')]
        /\ UNCHANGED <<cacheSeries, builtData, remapVars, resliceVars, distVars, sortVars, keyVars, minMaxVars>>

\* The entries of cached other than those of load object p.
RECURSIVE WithoutLoad(_, _)
WithoutLoad(cached, p) ==
    IF cached = <<>> THEN <<>>
    ELSE IF Head(cached).imageLoadObject = p THEN WithoutLoad(Tail(cached), p)
    ELSE <<Head(cached)>> \o WithoutLoad(Tail(cached), p)

\* An image load fails: the cache drops its entry or keeps it unloaded
\* (cornerstone releases differ), then the calls waiting for it are rejected.
LoadReject ==
    \E p \in 1..Len(imageLoads), dropped \in BOOLEAN :
        /\ builtData = None
        /\ imageLoads[p].state = "pending"
        /\ imageLoads' = [imageLoads EXCEPT ![p].state = "rejected"]
        /\ cachedImages' = IF dropped THEN WithoutLoad(cachedImages, p) ELSE cachedImages
        /\ saveCalls' =
              [s \in SeriesNames |->
                  ResumeSave(saveCalls[s], cacheSeries[s], imageLoads', cachedImages')]
        /\ UNCHANGED <<cacheSeries, builtData, remapVars, resliceVars, distVars, sortVars, keyVars, minMaxVars>>

\* loadImage(series, elementId) of the rendering module, as far as the cache
\* goes: it requests every slice in the order of series.imageIds, without a
\* purge.
LoadImage ==
    \E s \in SeriesNames :
        /\ builtData = None
        /\ Len(imageLoads) + NewLoads(cacheSeries[s].imageIds, cachedImages) <= MaxLoads
        /\ LET requested == LoadEach(CacheNow, cacheSeries[s].imageIds, 1)
           IN  /\ cachedImages' = requested.cachedImages
               /\ imageLoads' = requested.imageLoads
        /\ UNCHANGED <<cacheSeries, saveCalls, builtData,
                       remapVars, resliceVars, distVars, sortVars, keyVars, minMaxVars>>

\* clearImageCache()
ClearImageCache ==
    /\ builtData = None
    /\ cachedImages' = purgeCache(CacheNow).cachedImages
    /\ UNCHANGED <<cacheSeries, imageLoads, saveCalls, builtData,
                   remapVars, resliceVars, distVars, sortVars, keyVars, minMaxVars>>

\* buildData(series, useSeriesData) called by the application; a run is
\* followed up to this call.
BuildData ==
    \E s \in SeriesNames, useSeriesData \in BOOLEAN :
        /\ builtData = None
        /\ builtData' = [kind |-> "call", series |-> s,
                         useSeriesData |-> useSeriesData,
                         cachedImages |-> cachedImages,
                         result |-> buildData(cacheSeries[s], useSeriesData, cachedImages)]
        /\ UNCHANGED <<cacheSeries, cachedImages, imageLoads, saveCalls,
                       remapVars, resliceVars, distVars, sortVars, keyVars, minMaxVars>>

NextCache ==
    \/ CacheAndSaveSerie
    \/ LoadResolve
    \/ LoadReject
    \/ LoadImage
    \/ ClearImageCache
    \/ BuildData

SpecCache == InitCache /\ [][NextCache]_vars

\* The pixel buffers of the slices of series from index k on, one after the
\* other in the order of series.imageIds.
RECURSIVE SlicesInSeriesOrder(_, _)
SlicesInSeriesOrder(series, k) ==
    IF k > Len(series.imageIds) THEN <<>>
    ELSE series.instances[series.imageIds[k]].pixelData
            \o SlicesInSeriesOrder(series, k + 1)

\* Every slice of series has a loaded image in the cache contents `cached`.
Resident(series, cached) ==
    \A k \in 1..Len(series.imageIds) :
        \E c \in 1..Len(cached) :
            cached[c].imageId = series.imageIds[k] /\ cached[c].loaded

\* C4: buildData returns a buffer of rows x cols x numSlices elements holding
\* the slices' pixel buffers one after the other in the order of
\* series.imageIds, when it copies the slices' own buffers and when it copies
\* the cache's buffers with every slice of the series resident in the cache.
C4_BuildDataInSeriesOrder ==
    (/\ builtData.kind = "call"
     /\ \/ builtData.useSeriesData
        \/ Resident(cacheSeries[builtData.series], builtData.cachedImages))
    => LET series == cacheSeries[builtData.series]
           metadata == series.instances[At(series.imageIds, 0)].metadata
       IN  /\ builtData.result.kind = "value"
           /\ Len(builtData.result.data)
                = metadata.x00280010 * metadata.x00280011 * Len(series.imageIds)
           /\ builtData.result.data = SlicesInSeriesOrder(series, 1)

\* The state part of C9, for one call.
C9_BuiltAfterLoads(call) ==
    /\ (call.header # None \/ call.data # None)
        => \A k \in 1..Len(call.promises) :
                imageLoads[call.promises[k]].state = "resolved"
    /\ (\E k \in 1..Len(call.promises) : imageLoads[call.promises[k]].state = "rejected")
        => call.pc = "rejected" /\ call.header = None /\ call.data = None
    /\ call.pc = "fulfilled" => call.header.kind = "value" /\ call.data.kind = "value"

\* The step part of C9, for the step in which the call for series s starts:
\* when it reaches its await the cache holds the loads this call requested
\* after its purge, one per slice in the order of series.imageIds, and
\* nothing else.
C9_PurgedThenRequested(s) ==
    (saveCalls[s].pc = "idle" /\ saveCalls'[s].pc # "idle")
    => LET imageIds == cacheSeries[s].imageIds
       IN  /\ Len(cachedImages') = Len(imageIds)
           /\ Len(saveCalls'[s].promises) = Len(imageIds)
           /\ \A k \in 1..Len(imageIds) :
                /\ cachedImages'[k].imageId = imageIds[k]
                /\ cachedImages'[k].imageLoadObject = saveCalls'[s].promises[k]
                /\ saveCalls'[s].promises[k] > Len(imageLoads)
           /\ saveCalls'[s].header = None /\ saveCalls'[s].data = None

\* C9: in cacheAndSaveSerie the cache is purged before any slice load is
\* requested; buildHeader and buildData run only after the load of every
\* slice of the series has completed; if a load fails, no header and no data
\* is built or returned.
C9_PurgeLoadBuild ==
    [][\A s \in SeriesNames :
            C9_PurgedThenRequested(s) /\ C9_BuiltAfterLoads(saveCalls[s])']_vars

\* A call for a series of two slices returned header and data after both
\* loads completed, and the call for the other series was rejected by a
\* failed load.
C9_Witness ==
    /\ saveCalls["A"].pc = "fulfilled"
    /\ Len(saveCalls["A"].promises) = 2
    /\ saveCalls["A"].data.kind = "value"
    /\ saveCalls["B"].pc = "rejected"
    /\ imageLoads[saveCalls["B"].promises[1]].state = "rejected"

\* C21: whatever other cacheAndSaveSerie calls, image loads and purges of the
\* shared cache happen while a cacheAndSaveSerie call waits, the data the
\* call returns are the pixel buffers of its own series' slices, in the order
\* of series.imageIds, rows x cols x numSlices elements long.
C21_ReturnsOwnSeries ==
    \A s \in SeriesNames :
        saveCalls[s].pc = "fulfilled"
        => LET series == cacheSeries[s]
               metadata == series.instances[At(series.imageIds, 0)].metadata
           IN  /\ saveCalls[s].data.kind = "value"
               /\ Len(saveCalls[s].data.data)
                    = metadata.x00280010 * metadata.x00280011 * Len(series.imageIds)
               /\ saveCalls[s].data.data = SlicesInSeriesOrder(series, 1)

====
